---- MODULE Spec2Model ----
(***************************************************************************)
(* Model of src/mysql.py: the user migration (migrate_users with its       *)
(* token clean-up clean_specific_tokens), the node traffic consolidation   *)
(* (consolidate_node_traffic) and the schema clean-up                      *)
(* (update_schema_remove_is_increment), each running in one transaction    *)
(* against the target database.                                            *)
(*                                                                         *)
(* db / log are the committed tables, tx / txlog the view of the open      *)
(* transaction.  A statement may fail (fail points), which raises into     *)
(* the except block of the operation.                                      *)
(***************************************************************************)
EXTENDS Integers, Sequences, FiniteSets, TLC

VARIABLES
    now,            \* the wall clock read by datetime.now()
    source,         \* source database: the legacy users table, in fetch order
    db,             \* target users table, committed rows
    tx,             \* target users table as seen inside the open transaction
    pc,             \* position of the running operation
    users,          \* migrate_users: rows fetched from the source
    idx,            \* migrate_users: index of the next row of the for loop
    group_time,     \* migrate_users: the local variable group_time
    cleaned_count,  \* clean_specific_tokens: the local cleaned_count
    report,         \* what the operation printed last
    runs,           \* number of operations started
    start,          \* history: tables and clock when the operation began
    preclean,       \* history: tx when clean_specific_tokens was entered
    prev,           \* history: the previous operation (input, time, result)
    rowlog,         \* history: what the loop did for each row processed
    log,            \* node_traffic_log, committed rows
    txlog,          \* node_traffic_log inside the open transaction
    nodes,          \* consolidate_node_traffic: node names still to process
    consolidated_count,
    removed_count,
    has_is_increment \* whether node_traffic_log has the is_increment column

vars == <<now, source, db, tx, pc, users, idx, group_time, cleaned_count,
          report, runs, start, preclean, prev, rowlog, log, txlog, nodes,
          consolidated_count, removed_count, has_is_increment>>

uservars == <<source, db, tx, users, idx, group_time, cleaned_count,
              preclean, rowlog>>
logvars == <<log, txlog, nodes, consolidated_count, removed_count>>

----------------------------------------------------------------------------
(* Bounds *)

MaxTime == 2        \* the clock runs from 1 to MaxTime
MaxRuns == 2        \* operations started in one behaviour
MaxDate == 2        \* record dates are 1..MaxDate
MaxTraffic == 2     \* traffic_in / traffic_out of a reported record

----------------------------------------------------------------------------
(* Values *)

\* a nullable text column / Python str-or-None
NullStr == [null |-> TRUE, v |-> ""]
Str(s) == [null |-> FALSE, v |-> s]

\* a token is a sequence of characters, so that startswith is computed
NullTok == [null |-> TRUE, v |-> <<>>]
Tok(s) == [null |-> FALSE, v |-> s]

\* a datetime column / Python value: None, a datetime, a non-datetime value
\* (a string such as '0000-00-00'), a key missing from the row, or a local
\* variable that was never assigned
None == [kind |-> "none", t |-> 0]
Dt(t) == [kind |-> "datetime", t |-> t]
BadDate == [kind |-> "str", t |-> 0]
Absent == [kind |-> "absent", t |-> 0]
Unbound == [kind |-> "unbound", t |-> 0]

\* Python truthiness of such a value (None is falsy, the others are truthy)
Truthy(x) == x.kind \in {"datetime", "str"}

\* dict.get without the default: a missing key gives None
GetNoDefault(value, default) == IF value.kind = "absent" THEN None ELSE value

\* dict.get(key, default): the default only replaces a missing key
Get(value, default) == IF value.kind = "absent" THEN default ELSE value

BadPrefix == <<"6", "d", "H", "+">>

\* str.startswith
StartsWith(s, p) == Len(s) >= Len(p) /\ SubSeq(s, 1, Len(p)) = p

----------------------------------------------------------------------------
(* The users tables *)

Usernames == {"a", "b"}

\* a row of the source users table
LegacyRow(u, ty, vt, iv) ==
    [username |-> u, password |-> Str("pw-new"),
     email |-> IF u = "a" THEN Str("a@x") ELSE NullStr,
     type |-> ty, VIPTime |-> vt, is_verified |-> iv, auth_count |-> iv,
     encrypted_identity_info |-> IF u = "a" THEN Str("idinfo") ELSE NullStr,
     created_at |-> IF u = "a" THEN Dt(1) ELSE Absent]

LegacyTypes == {Str("VIP"), Str("normal"), Str("NORMAL"), NullStr}

\* the rows account "a" may have in the source: VIPTime is only read for a
\* VIP row, so only VIP rows vary in it
LegacyRowsA ==
    {LegacyRow("a", Str("VIP"), vt, iv) :
        vt \in {None, BadDate, Dt(2)}, iv \in {0, 1}}
    \cup {LegacyRow("a", ty, None, iv) :
        ty \in LegacyTypes \ {Str("VIP")}, iv \in {0, 1}}

\* the rows account "b" may have: one of each type
LegacyRowsB ==
    {LegacyRow("b", Str("VIP"), Dt(2), 1), LegacyRow("b", Str("normal"), None, 0),
     LegacyRow("b", Str("NORMAL"), None, 1), LegacyRow("b", NullStr, None, 0)}

\* the source table: usernames are unique there, rows come in key order
LegacyTables ==
    {<<>>}
    \cup {<<r>> : r \in LegacyRowsA \cup LegacyRowsB}
    \cup {<<r, q>> : r \in LegacyRowsA, q \in LegacyRowsB}

\* a row of the target users table that an earlier life of the platform made
OldRow(i, u, tok, gid, gt) ==
    [id |-> i, username |-> u, password |-> Str("pw-old"),
     email |-> Str("old@x"), register_time |-> Dt(0), group_id |-> gid,
     is_verified |-> 0, verify_info |-> Str(""), verify_count |-> 0,
     status |-> 0, created_at |-> Dt(0), updated_at |-> Dt(0),
     group_time |-> gt, token |-> tok,
     tunnel_count |-> 2, bandwidth |-> 2, traffic_quota |-> 2,
     checkin_count |-> 2, continuity_checkin |-> 2]

\* the rows account "a" may have in the target: an active VIP holding a token
\* to keep, or a basic account holding a token that starts with '6dH+'
TargetRowsA ==
    {OldRow(1, "a", Tok(<<"k", "e", "e", "p">>), 3, Dt(2)),
     OldRow(1, "a", Tok(BadPrefix \o <<"x">>), 1, None)}

\* the target table: at most one row per username; a stored group_time goes
\* with group 3; "c" is an account the source does not know
TargetTables ==
    {ra \cup rb \cup {OldRow(3, "c", Tok(<<"6", "d", "H">>), 1, None)} :
        ra \in {{}} \cup {{r} : r \in TargetRowsA},
        rb \in {{}, {OldRow(2, "b", Tok(BadPrefix), 1, None)}}}

\* AUTO_INCREMENT of users.id
NextId(tbl) ==
    IF tbl = {} THEN 1
    ELSE (CHOOSE i \in {r.id : r \in tbl} : \A r \in tbl : r.id <= i) + 1

----------------------------------------------------------------------------
(* migrate_users: the body of the for loop *)

IsVerified(user) == user.is_verified # 0

\* Classify with the expiry test not strict (>= for >)
ClassifyNotStrict(user, prev_gt, t) ==
    IF user.type = Str("VIP")
    THEN IF /\ Truthy(user.VIPTime)
            /\ user.VIPTime.kind = "datetime"
            /\ user.VIPTime.t >= t
         THEN [group_id |-> 3, group_time |-> user.VIPTime]
         ELSE [group_id |-> IF user.is_verified # 0 THEN 2 ELSE 1,
               group_time |-> None]
    ELSE IF user.type = Str("normal")
    THEN [group_id |-> IF user.is_verified # 0 THEN 2 ELSE 1,
          group_time |-> None]
    ELSE [group_id |-> 1, group_time |-> prev_gt]

\* Classify with the normal branch testing for 'NORMAL'
ClassifyUpperNormal(user, prev_gt, t) ==
    IF user.type = Str("VIP")
    THEN IF /\ Truthy(user.VIPTime)
            /\ user.VIPTime.kind = "datetime"
            /\ user.VIPTime.t > t
         THEN [group_id |-> 3, group_time |-> user.VIPTime]
         ELSE [group_id |-> IF user.is_verified # 0 THEN 2 ELSE 1,
               group_time |-> None]
    ELSE IF user.type = Str("NORMAL")
    THEN [group_id |-> IF user.is_verified # 0 THEN 2 ELSE 1,
          group_time |-> None]
    ELSE [group_id |-> 1, group_time |-> prev_gt]

\* lines 41-62: group_id and group_time of one row; prev_gt is what the local
\* variable group_time holds when the iteration starts
Classify(user, prev_gt, t) ==
    IF user.type = Str("VIP")
    THEN IF /\ Truthy(user.VIPTime)
            /\ user.VIPTime.kind = "datetime"
            /\ user.VIPTime.t > t
         THEN [group_id |-> 3, group_time |-> user.VIPTime]
         ELSE [group_id |-> IF IsVerified(user) THEN 2 ELSE 1,
               group_time |-> None]
    ELSE IF user.type = Str("normal")
    THEN [group_id |-> IF IsVerified(user) THEN 2 ELSE 1, group_time |-> None]
    ELSE [group_id |-> 1, group_time |-> prev_gt]

\* lines 68-74: email and verify_info are never NULL
Sanitize(x) == IF x.null THEN Str("") ELSE x

\* UpdateUser with token in the SET list
UpdateUserResetsToken(tbl, user, gid, t) ==
    {IF r.username = user.username
     THEN [r EXCEPT !.password = user.password,
                    !.email = Sanitize(user.email),
                    !.group_id = gid,
                    !.verify_info = Sanitize(user.encrypted_identity_info),
                    !.is_verified = user.is_verified,
                    !.verify_count = user.auth_count,
                    !.status = 1,
                    !.updated_at = Dt(t),
                    !.token = NullTok]
     ELSE r : r \in tbl}

\* UpdateUser with group_time = NULL in the SET list
UpdateUserClearsGroupTime(tbl, user, gid, t) ==
    {IF r.username = user.username
     THEN [r EXCEPT !.password = user.password,
                    !.email = Sanitize(user.email),
                    !.group_id = gid,
                    !.verify_info = Sanitize(user.encrypted_identity_info),
                    !.is_verified = user.is_verified,
                    !.verify_count = user.auth_count,
                    !.status = 1,
                    !.updated_at = Dt(t),
                    !.group_time = None]
     ELSE r : r \in tbl}

\* UpdateUser without the WHERE clause
UpdateUserNoWhere(tbl, user, gid, t) ==
    {[r EXCEPT !.password = user.password,
               !.email = Sanitize(user.email),
               !.group_id = gid,
               !.verify_info = Sanitize(user.encrypted_identity_info),
               !.is_verified = user.is_verified,
               !.verify_count = user.auth_count,
               !.status = 1,
               !.updated_at = Dt(t)] : r \in tbl}

\* lines 82-99: the main UPDATE
UpdateUser(tbl, user, gid, t) ==
    {IF r.username = user.username
     THEN [r EXCEPT !.password = user.password,
                    !.email = Sanitize(user.email),
                    !.group_id = gid,
                    !.verify_info = Sanitize(user.encrypted_identity_info),
                    !.is_verified = user.is_verified,
                    !.verify_count = user.auth_count,
                    !.status = 1,
                    !.updated_at = Dt(t)]
     ELSE r : r \in tbl}

\* lines 103-106: the UPDATE of group_time
UpdateGroupTime(tbl, user, gt) ==
    {IF r.username = user.username THEN [r EXCEPT !.group_time = gt] ELSE r :
        r \in tbl}

\* InsertUser with status 0 in the VALUES list
InsertUserDisabled(tbl, user, gid, gt, t) ==
    tbl \cup
    {[id |-> NextId(tbl), username |-> user.username,
      password |-> user.password, email |-> Sanitize(user.email),
      register_time |-> Get(user.created_at, Dt(t)), group_id |-> gid,
      is_verified |-> user.is_verified,
      verify_info |-> Sanitize(user.encrypted_identity_info),
      verify_count |-> user.auth_count, status |-> 0,
      created_at |-> Get(user.created_at, Dt(t)), updated_at |-> Dt(t),
      group_time |-> gt, token |-> NullTok,
      tunnel_count |-> 0, bandwidth |-> 0, traffic_quota |-> 0,
      checkin_count |-> 0, continuity_checkin |-> 0]}

\* lines 109-137: the INSERT; token is not in the column list
InsertUser(tbl, user, gid, gt, t) ==
    tbl \cup
    {[id |-> NextId(tbl), username |-> user.username,
      password |-> user.password, email |-> Sanitize(user.email),
      register_time |-> Get(user.created_at, Dt(t)), group_id |-> gid,
      is_verified |-> user.is_verified,
      verify_info |-> Sanitize(user.encrypted_identity_info),
      verify_count |-> user.auth_count, status |-> 1,
      created_at |-> Get(user.created_at, Dt(t)), updated_at |-> Dt(t),
      group_time |-> gt, token |-> NullTok,
      tunnel_count |-> 0, bandwidth |-> 0, traffic_quota |-> 0,
      checkin_count |-> 0, continuity_checkin |-> 0]}

FailPoints == {"none", "select", "update", "update_group_time", "insert"}

RowResult(tbl, gt, err, path, gid) ==
    [tbl |-> tbl, group_time |-> gt, err |-> err, path |-> path,
     group_id |-> gid]

\* lines 39-137: one iteration; fail names the statement that fails, if any
MigrateRow(tbl, user, prev_gt, t, fail) ==
    LET c == Classify(user, prev_gt, t)
        gid == c.group_id
        gt == c.group_time
        existing_user == \E r \in tbl : r.username = user.username
        updated == UpdateUser(tbl, user, gid, t)
    IN  IF fail = "select"
        THEN RowResult(tbl, gt, "QueryFailure", "none", gid)
        ELSE IF existing_user
        THEN IF fail = "update"
             THEN RowResult(tbl, gt, "QueryFailure", "update", gid)
             ELSE IF gt.kind = "unbound"
             THEN RowResult(updated, gt, "UnboundLocalError", "update", gid)
             ELSE IF ~Truthy(gt)
             THEN RowResult(updated, gt, "", "update", gid)
             ELSE IF fail = "update_group_time"
             THEN RowResult(updated, gt, "QueryFailure", "update", gid)
             ELSE RowResult(UpdateGroupTime(updated, user, gt), gt, "",
                            "update", gid)
        ELSE IF gt.kind = "unbound"
             THEN RowResult(tbl, gt, "UnboundLocalError", "insert", gid)
             ELSE IF fail = "insert"
             THEN RowResult(tbl, gt, "QueryFailure", "insert", gid)
             ELSE RowResult(InsertUser(tbl, user, gid, gt, t), gt, "",
                            "insert", gid)

----------------------------------------------------------------------------
(* clean_specific_tokens *)

\* line 163: the rows the SELECT returns
WithToken(tbl) == {r \in tbl : ~r.token.null /\ r.token.v # <<>>}

\* ToClean without the startswith test
ToCleanAnyToken(tbl) == WithToken(tbl)

\* line 169: the rows whose token is cleared
ToClean(tbl) == {r \in WithToken(tbl) : StartsWith(r.token.v, BadPrefix)}

\* CleanTokens without the raise of line 175: the error is only printed
CleanTokensSwallows(tbl, fail_id) ==
    LET bad == {r.id : r \in ToClean(tbl)}
        done == IF fail_id = -1 THEN {}
                ELSE IF fail_id \in bad THEN {i \in bad : i < fail_id}
                ELSE bad
    IN  [tbl |-> {IF r.id \in done THEN [r EXCEPT !.token = Tok(<<>>)] ELSE r :
                    r \in tbl},
         cleaned_count |-> Cardinality(done),
         err |-> ""]

\* lines 158-178; fail_id = 0: no statement fails; -1: the SELECT fails;
\* an id: the UPDATE of that row fails, after those of the rows before it
CleanTokens(tbl, fail_id) ==
    LET bad == {r.id : r \in ToClean(tbl)}
        done == IF fail_id = -1 THEN {}
                ELSE IF fail_id \in bad THEN {i \in bad : i < fail_id}
                ELSE bad
    IN  [tbl |-> {IF r.id \in done THEN [r EXCEPT !.token = Tok(<<>>)] ELSE r :
                    r \in tbl},
         cleaned_count |-> Cardinality(done),
         err |-> IF fail_id = -1 \/ fail_id \in bad THEN "QueryFailure"
                 ELSE ""]

----------------------------------------------------------------------------
(* Initial states *)

\* what an operation prints and how it ends: the summary or the error line
\* with its cause, the error line of clean_specific_tokens (line 174), and
\* whether the exception leaves the function
NoReport ==
    [op |-> "none", kind |-> "none", count |-> 0, cause |-> "",
     token_error |-> FALSE, raised |-> FALSE]

NoPrev == [ok |-> FALSE, op |-> "none", users |-> <<>>, t0 |-> 0]

InitCommon ==
    /\ now = 1
    /\ pc = "idle"
    /\ users = <<>>
    /\ idx = 1
    /\ group_time = Unbound
    /\ cleaned_count = 0
    /\ report = NoReport
    /\ runs = 0
    /\ prev = NoPrev
    /\ rowlog = <<>>
    /\ nodes = {}
    /\ consolidated_count = 0
    /\ removed_count = 0

Init ==
    /\ InitCommon
    /\ source \in LegacyTables
    /\ db \in TargetTables
    /\ tx = db
    /\ preclean = db
    /\ log = {}
    /\ txlog = {}
    /\ has_is_increment = TRUE
    /\ start = [db |-> db, log |-> log, now |-> now]

----------------------------------------------------------------------------
(* migrate_users *)

\* datetime.now() moves on
Tick ==
    /\ now < MaxTime
    /\ now' = now + 1
    /\ UNCHANGED <<uservars, logvars, pc, report, runs, start, prev,
                   has_is_increment>>

\* what the previous operation was, kept when the next one begins
Previous ==
    IF report.kind = "success"
    THEN [ok |-> TRUE, op |-> report.op, users |-> users, t0 |-> start.now]
    ELSE NoPrev

\* lines 33-36: the transaction opens, the source rows are fetched
MigrateBegin ==
    /\ pc = "idle"
    /\ runs < MaxRuns
    /\ runs' = runs + 1
    /\ prev' = Previous
    /\ start' = [db |-> db, log |-> log, now |-> now]
    /\ tx' = db
    /\ idx' = 1
    /\ group_time' = Unbound
    /\ rowlog' = <<>>
    /\ cleaned_count' = 0
    /\ preclean' = db
    /\ \E fail \in BOOLEAN :
         IF fail
         THEN /\ users' = <<>>
              /\ pc' = "except"
              /\ report' = [NoReport EXCEPT !.op = "migrate_users",
                                            !.cause = "QueryFailure"]
         ELSE /\ users' = source
              /\ pc' = IF Len(source) = 0 THEN "clean" ELSE "rows"
              /\ report' = [NoReport EXCEPT !.op = "migrate_users"]
    /\ UNCHANGED <<now, source, db, logvars, has_is_increment>>

\* lines 39-137: one iteration of the for loop
MigrateUser ==
    /\ pc = "rows"
    /\ idx <= Len(users)
    /\ \E fail \in FailPoints :
         LET res == MigrateRow(tx, users[idx], group_time, now, fail)
         IN  /\ tx' = res.tbl
             /\ group_time' = res.group_time
             /\ rowlog' = Append(rowlog,
                    [user |-> users[idx], t |-> now, path |-> res.path,
                     group_id |-> res.group_id, group_time |-> res.group_time,
                     err |-> res.err])
             /\ IF res.err # ""
                THEN /\ pc' = "except"
                     /\ report' = [report EXCEPT !.cause = res.err]
                     /\ idx' = idx
                ELSE /\ pc' = IF idx = Len(users) THEN "clean" ELSE "rows"
                     /\ report' = report
                     /\ idx' = idx + 1
    /\ UNCHANGED <<now, source, db, users, cleaned_count, preclean, runs,
                   start, prev, logvars, has_is_increment>>

\* line 140: clean_specific_tokens(target_conn), in the same transaction
CleanSpecificTokens ==
    /\ pc = "clean"
    /\ preclean' = tx
    /\ \E fail_id \in {0, -1} \cup {r.id : r \in tx} :
         LET res == CleanTokens(tx, fail_id)
         IN  /\ tx' = res.tbl
             /\ cleaned_count' = res.cleaned_count
             /\ IF res.err # ""
                THEN /\ pc' = "except"
                     /\ report' = [report EXCEPT !.cause = res.err,
                                                 !.token_error = TRUE]
                ELSE /\ pc' = "commit"
                     /\ report' = report
    /\ UNCHANGED <<now, source, db, users, idx, group_time, rowlog, runs,
                   start, prev, logvars, has_is_increment>>

\* lines 143-144: commit, then the success line
MigrateCommit ==
    /\ pc = "commit"
    /\ \E fail \in BOOLEAN :
         IF fail
         THEN /\ pc' = "except"
              /\ report' = [report EXCEPT !.cause = "QueryFailure"]
              /\ db' = db
         ELSE /\ pc' = "idle"
              /\ db' = tx
              /\ report' = [report EXCEPT !.kind = "success",
                                          !.count = Len(users)]
    /\ UNCHANGED <<now, source, tx, users, idx, group_time, cleaned_count,
                   preclean, rowlog, runs, start, prev, logvars,
                   has_is_increment>>

\* Rollback that keeps the work of the transaction (a commit)
RollbackKeeps(committed, open) == open

\* line 148: target_conn.rollback()
Rollback(committed, open) == committed

\* lines 146-156: the except block, and the function returns
MigrateExcept ==
    /\ pc = "except"
    /\ tx' = Rollback(db, tx)
    /\ db' = Rollback(db, tx)
    /\ report' = [report EXCEPT !.kind = "error", !.raised = FALSE]
    /\ pc' = "idle"
    /\ UNCHANGED <<now, source, users, idx, group_time, cleaned_count,
                   preclean, rowlog, runs, start, prev, logvars,
                   has_is_increment>>

Next ==
    \/ Tick
    \/ MigrateBegin
    \/ MigrateUser
    \/ CleanSpecificTokens
    \/ MigrateCommit
    \/ MigrateExcept

Spec == Init /\ [][Next]_vars

----------------------------------------------------------------------------
(* Properties of migrate_users *)

\* migrate_users has returned
Migrated == pc = "idle" /\ report.op = "migrate_users"

\* the transaction of migrate_users is open and no statement has failed
InMigration == pc \in {"rows", "clean", "commit"}

Row(tbl, u) == CHOOSE r \in tbl : r.username = u

HasRow(tbl, u) == \E r \in tbl : r.username = u

\* C1: migrate_users is all-or-nothing.  While it runs the committed table
\* is the one it started from; if a statement failed the committed table
\* is still that one afterwards and no success line was printed; if none
\* failed every fetched row was applied and all of them were committed
\* together with the success line.
C1_AllOrNothing ==
    /\ pc # "idle" => db = start.db
    /\ (Migrated /\ report.cause # "") =>
            db = start.db /\ report.kind = "error"
    /\ (Migrated /\ report.cause = "") =>
            /\ report.kind = "success" /\ report.count = Len(users)
            /\ db = tx
            /\ Len(rowlog) = Len(users)
            /\ \A i \in 1..Len(users) :
                 /\ HasRow(db, users[i].username)
                 /\ Row(db, users[i].username).group_id = rowlog[i].group_id
                 /\ Row(db, users[i].username).password = users[i].password
                 /\ Row(db, users[i].username).updated_at = Dt(rowlog[i].t)

\* the second of two rows failed after the first had been inserted
C1_Witness ==
    /\ Migrated /\ report.kind = "error"
    /\ Len(rowlog) = 2
    /\ rowlog[1].path = "insert" /\ rowlog[1].err = ""
    /\ rowlog[2].err # ""

\* C2: the update path never changes a token, and a committed account's
\* token changes only when the clean-up empties a token starting with
\* '6dH+' (a row that did not exist before is a first creation).
C2_TokenPreserved ==
    [][/\ pc = "rows" =>
            \A r \in tx : \E q \in tx' : q.id = r.id /\ q.token = r.token
       /\ \A r \in db : \E q \in db' :
            /\ q.id = r.id
            /\ \/ q.token = r.token
               \/ /\ ~r.token.null /\ StartsWith(r.token.v, BadPrefix)
                  /\ q.token = Tok(<<>>)]_vars

\* an account holding a token was updated from the source and committed
C2_Witness ==
    /\ Migrated /\ report.kind = "success"
    /\ \E r \in db :
         /\ r.token = Tok(<<"k", "e", "e", "p">>)
         /\ r.password = Str("pw-new") /\ r.status = 1

\* the fields of an account that reconciliation is about
Reconciled(tbl) ==
    {[username |-> r.username, group_id |-> r.group_id,
      group_time |-> r.group_time, email |-> r.email,
      verify_info |-> r.verify_info, is_verified |-> r.is_verified,
      verify_count |-> r.verify_count, status |-> r.status,
      token |-> r.token] : r \in tbl}

\* migrate_users ran twice with success on the same rows, the clock
\* standing still from the start of the first run to the end of the second
RanTwice ==
    /\ Migrated /\ report.kind = "success"
    /\ prev.ok /\ prev.op = "migrate_users"
    /\ prev.users = users
    /\ prev.t0 = now

\* C4: reconciliation is idempotent: after a second run on the same source
\* rows at the same evaluation time every account is as the first run left it.
C4_Idempotent == RanTwice => Reconciled(db) = Reconciled(start.db)

\* the second run updated an account that the first run had inserted
C4_Witness ==
    /\ RanTwice
    /\ \E i \in 1..Len(rowlog) :
         /\ rowlog[i].path = "update"
         /\ Row(db, rowlog[i].user.username).tunnel_count = 0

\* C6: clean_specific_tokens empties exactly the tokens that start with
\* '6dH+', counts the accounts it changed, and finds nothing to clean on
\* its own output or in a run that follows a successful run.
C6_TokenHygiene ==
    pc = "commit" =>
        /\ \A r \in preclean : \E q \in tx :
             /\ q.id = r.id
             /\ q.token = IF ~r.token.null /\ StartsWith(r.token.v, BadPrefix)
                          THEN Tok(<<>>) ELSE r.token
        /\ cleaned_count = Cardinality(preclean \ tx)
        /\ CleanTokens(tx, 0).tbl = tx
        /\ CleanTokens(tx, 0).cleaned_count = 0
        /\ (prev.ok /\ prev.op = "migrate_users") =>
                cleaned_count = 0 /\ tx = preclean

\* two tokens were emptied while a token without the prefix was kept
C6_Witness ==
    /\ pc = "commit" /\ cleaned_count = 2
    /\ \E q \in tx : ~q.token.null /\ q.token.v # <<>>

----------------------------------------------------------------------------
(* Properties of the classifier, lines 41-62 *)

\* the VIP expiry of a processed row lies after the time it was evaluated at
VipActive(e) == e.user.VIPTime.kind = "datetime" /\ e.user.VIPTime.t > e.t

TierByVerification(user) == IF user.is_verified # 0 THEN 2 ELSE 1

\* C7: a VIP row whose expiry is a datetime after the evaluation time is
\* written with group 3 and that expiry; any other VIP row is written with
\* group 2 if verified and 1 otherwise, and its computed expiry is null.
C7_VipClassifier ==
    InMigration =>
        \A i \in 1..Len(rowlog) :
            LET e == rowlog[i]
                r == Row(tx, e.user.username)
            IN  e.user.type = Str("VIP") =>
                    IF VipActive(e)
                    THEN /\ r.group_id = 3
                         /\ e.group_time = e.user.VIPTime
                         /\ r.group_time = e.user.VIPTime
                    ELSE /\ r.group_id = TierByVerification(e.user)
                         /\ e.group_time = None
                         /\ e.path = "insert" => r.group_time = None

\* a VIP row with an invalid expiry and a VIP row with a future one
C7_Witness ==
    /\ InMigration
    /\ Len(rowlog) = 2
    /\ rowlog[1].user.type = Str("VIP") /\ rowlog[1].user.VIPTime = BadDate
    /\ rowlog[2].user.type = Str("VIP") /\ VipActive(rowlog[2])

\* C8 as stated: a row whose type is the string NORMAL gets group 2 if
\* verified and 1 otherwise, and a null computed expiry.
C8_Original ==
    \A i \in 1..Len(rowlog) :
        LET e == rowlog[i]
        IN  e.user.type = Str("NORMAL") =>
                /\ e.group_id = TierByVerification(e.user)
                /\ e.group_time = None

\* C8 amended: a row whose type is the string normal is written with group
\* 2 if verified and 1 otherwise, never 3, and its computed expiry is null.
C8_NormalClassifier ==
    InMigration =>
        \A i \in 1..Len(rowlog) :
            LET e == rowlog[i]
                r == Row(tx, e.user.username)
            IN  e.user.type = Str("normal") =>
                    /\ r.group_id = TierByVerification(e.user)
                    /\ r.group_id # 3
                    /\ e.group_time = None
                    /\ e.path = "insert" => r.group_time = None

\* a verified and an unverified normal row were written
C8_Witness ==
    /\ InMigration
    /\ Len(rowlog) = 2
    /\ rowlog[1].user.type = Str("normal") /\ rowlog[1].user.is_verified = 1
    /\ rowlog[2].user.type = Str("normal") /\ rowlog[2].user.is_verified = 0

\* C9 as stated: a row whose type is neither VIP nor NORMAL is processed
\* without error wherever it stands in the batch, with group 1 and a null
\* computed expiry.
C9_UnknownType ==
    \A i \in 1..Len(rowlog) :
        LET e == rowlog[i]
        IN  e.user.type \notin {Str("VIP"), Str("NORMAL"), Str("normal")} =>
                /\ e.err # "UnboundLocalError"
                /\ e.group_id = 1
                /\ e.group_time = None

\* C10 as stated: a committed account with a group_time is in group 3.
C10_ExpiryOnlyForVip ==
    \A r \in db : r.group_time # None => r.group_id = 3

----------------------------------------------------------------------------
(* node_traffic_log *)

NodeNames == {"n1", "n2"}

\* a record that the usage reporting wrote for node n on date d
Record(i, n, d, v) ==
    [id |-> i, node_name |-> n, record_date |-> d, traffic_in |-> v,
     traffic_out |-> v + d, online_count |-> 1, record_time |-> 0]

\* the (node, date) pairs that may hold a record: "n1" reports on every date,
\* "n2" on the first and the last one
Slots ==
    ({"n1"} \X (1..MaxDate)) \cup ({"n2"} \X {1, MaxDate})

SlotId(slot) == (IF slot[1] = "n1" THEN 0 ELSE MaxDate) + slot[2]

\* the table: at most one record per node and date
LogTables ==
    {{Record(SlotId(slot), slot[1], slot[2], f[slot]) :
        slot \in {x \in Slots : f[x] > 0}} :
        f \in [Slots -> 0..MaxTraffic]}

NextLogId(tbl) ==
    IF tbl = {} THEN 1
    ELSE (CHOOSE i \in {r.id : r \in tbl} : \A r \in tbl : r.id <= i) + 1

InitTraffic ==
    /\ InitCommon
    /\ source = <<>>
    /\ db = {}
    /\ tx = {}
    /\ preclean = {}
    /\ log \in LogTables
    /\ txlog = log
    /\ has_is_increment = TRUE
    /\ start = [db |-> db, log |-> log, now |-> now]

----------------------------------------------------------------------------
(* consolidate_node_traffic: the body of the for loop *)

RECURSIVE SumIn(_), SumOut(_)

\* lines 222-227: the accumulation over the fetched records
SumIn(records) ==
    IF records = {} THEN 0
    ELSE LET r == CHOOSE x \in records : TRUE
         IN  r.traffic_in + SumIn(records \ {r})

SumOut(records) ==
    IF records = {} THEN 0
    ELSE LET r == CHOOSE x \in records : TRUE
         IN  r.traffic_out + SumOut(records \ {r})

\* TotalTraffic taking the values of the latest record instead of the sums
TotalTrafficLatest(records) ==
    LET r == CHOOSE x \in records :
                \A y \in records : y.record_date <= x.record_date
    IN  [traffic_in |-> r.traffic_in, traffic_out |-> r.traffic_out]

TotalTraffic(records) ==
    [traffic_in |-> SumIn(records), traffic_out |-> SumOut(records)]

\* lines 211-216: SELECT MAX(record_date)
LatestDate(records) ==
    CHOOSE d \in {r.record_date : r \in records} :
        \A r \in records : r.record_date <= d

\* UpdateLatest adding the totals to the stored values
UpdateLatestAdds(tbl, rid, total, t) ==
    {IF r.id = rid
     THEN [r EXCEPT !.traffic_in = r.traffic_in + total.traffic_in,
                    !.traffic_out = r.traffic_out + total.traffic_out,
                    !.record_time = t]
     ELSE r : r \in tbl}

\* lines 241-245: the UPDATE of the latest record
UpdateLatest(tbl, rid, total, t) ==
    {IF r.id = rid
     THEN [r EXCEPT !.traffic_in = total.traffic_in,
                    !.traffic_out = total.traffic_out,
                    !.record_time = t]
     ELSE r : r \in tbl}

\* lines 248-252: the INSERT of a record at the latest date
InsertLatest(tbl, n, d, total, t) ==
    tbl \cup
    {[id |-> NextLogId(tbl), node_name |-> n, record_date |-> d,
      traffic_in |-> total.traffic_in, traffic_out |-> total.traffic_out,
      online_count |-> 0, record_time |-> t]}

\* lines 257-260: the DELETE of the records of the other dates
Superseded(tbl, n, d) ==
    {r \in tbl : r.node_name = n /\ r.record_date # d}

ConsFailPoints == {"none", "select", "write", "delete"}

NodeResult(tbl, err, consolidated, removed) ==
    [tbl |-> tbl, err |-> err, consolidated |-> consolidated,
     removed |-> removed]

\* lines 194-261: one iteration; pick stands for the row that LIMIT 1 returns,
\* column says whether is_increment exists; fail names the failing statement
ConsolidateNode(tbl, n, pick, t, column, fail) ==
    LET records == {r \in tbl : r.node_name = n}
        latest_date == LatestDate(records)
        total == TotalTraffic(records)
        latest_record == {r \in records : r.record_date = latest_date}
        written == IF latest_record # {}
                   THEN UpdateLatest(tbl, pick, total, t)
                   ELSE InsertLatest(tbl, n, latest_date, total, t)
        gone == Superseded(written, n, latest_date)
    IN  IF fail = "select" THEN NodeResult(tbl, "QueryFailure", 0, 0)
        ELSE IF records = {} THEN NodeResult(tbl, "", 0, 0)
        ELSE IF ~column THEN NodeResult(tbl, "UnknownColumn", 0, 0)
        ELSE IF fail = "write" THEN NodeResult(tbl, "QueryFailure", 0, 0)
        ELSE IF fail = "delete" THEN NodeResult(written, "QueryFailure", 1, 0)
        ELSE NodeResult(written \ gone, "", 1, Cardinality(gone))

\* the rows LIMIT 1 may return for node n (lines 230-235)
LatestRecords(tbl, n) ==
    LET records == {r \in tbl : r.node_name = n}
    IN  {r.id : r \in {x \in records :
                        x.record_date = LatestDate(records)}}

----------------------------------------------------------------------------
(* consolidate_node_traffic and update_schema_remove_is_increment *)

\* lines 186-192: the transaction opens, the node names are fetched
ConsolidateBegin ==
    /\ pc = "idle"
    /\ runs < MaxRuns
    /\ runs' = runs + 1
    /\ prev' = Previous
    /\ start' = [db |-> db, log |-> log, now |-> now]
    /\ txlog' = log
    /\ consolidated_count' = 0
    /\ removed_count' = 0
    /\ \E fail \in BOOLEAN :
         IF fail
         THEN /\ nodes' = {}
              /\ pc' = "c_except"
              /\ report' = [NoReport EXCEPT !.op = "consolidate_node_traffic",
                                            !.cause = "QueryFailure"]
         ELSE /\ nodes' = {r.node_name : r \in log}
              /\ pc' = IF log = {} THEN "c_commit" ELSE "c_nodes"
              /\ report' = [NoReport EXCEPT !.op = "consolidate_node_traffic"]
    /\ UNCHANGED <<now, uservars, log, has_is_increment>>

\* lines 194-261: one iteration of the for loop
ConsolidateOne ==
    /\ pc = "c_nodes"
    /\ \E n \in nodes, fail \in ConsFailPoints :
         \E pick \in LatestRecords(txlog, n) :
           LET res == ConsolidateNode(txlog, n, pick, now, has_is_increment,
                                      fail)
           IN  /\ txlog' = res.tbl
               /\ consolidated_count' = consolidated_count + res.consolidated
               /\ removed_count' = removed_count + res.removed
               /\ IF res.err # ""
                  THEN /\ pc' = "c_except"
                       /\ report' = [report EXCEPT !.cause = res.err]
                       /\ nodes' = nodes
                  ELSE /\ pc' = IF nodes = {n} THEN "c_commit" ELSE "c_nodes"
                       /\ report' = report
                       /\ nodes' = nodes \ {n}
    /\ UNCHANGED <<now, uservars, log, runs, start, prev, has_is_increment>>

\* lines 264-266: commit, then the two summary lines
ConsolidateCommit ==
    /\ pc = "c_commit"
    /\ \E fail \in BOOLEAN :
         IF fail
         THEN /\ pc' = "c_except"
              /\ report' = [report EXCEPT !.cause = "QueryFailure"]
              /\ log' = log
         ELSE /\ pc' = "idle"
              /\ log' = txlog
              /\ report' = [report EXCEPT !.kind = "success",
                                          !.count = consolidated_count]
    /\ UNCHANGED <<now, uservars, txlog, nodes, consolidated_count,
                   removed_count, runs, start, prev, has_is_increment>>

\* lines 268-276: the except block, and the function returns
ConsolidateExcept ==
    /\ pc = "c_except"
    /\ txlog' = Rollback(log, txlog)
    /\ log' = Rollback(log, txlog)
    /\ report' = [report EXCEPT !.kind = "error", !.raised = FALSE]
    /\ pc' = "idle"
    /\ UNCHANGED <<now, uservars, nodes, consolidated_count, removed_count,
                   runs, start, prev, has_is_increment>>

\* lines 278-309: the column is dropped if it is there; a failing statement
\* leaves it
UpdateSchemaRemoveIsIncrement ==
    /\ pc = "idle"
    /\ runs < MaxRuns
    /\ runs' = runs + 1
    /\ prev' = Previous
    /\ start' = [db |-> db, log |-> log, now |-> now]
    /\ \E fail \in BOOLEAN :
         IF fail
         THEN /\ has_is_increment' = has_is_increment
              /\ report' = [NoReport EXCEPT
                               !.op = "update_schema_remove_is_increment",
                               !.kind = "error", !.cause = "QueryFailure"]
         ELSE /\ has_is_increment' = FALSE
              /\ report' = [NoReport EXCEPT
                               !.op = "update_schema_remove_is_increment",
                               !.kind = "success",
                               !.count = IF has_is_increment THEN 1 ELSE 0]
    /\ UNCHANGED <<now, uservars, logvars, pc>>

NextTraffic ==
    \/ Tick
    \/ ConsolidateBegin
    \/ ConsolidateOne
    \/ ConsolidateCommit
    \/ ConsolidateExcept
    \/ UpdateSchemaRemoveIsIncrement

SpecTraffic == InitTraffic /\ [][NextTraffic]_vars

----------------------------------------------------------------------------
(* Properties of consolidate_node_traffic *)

\* consolidate_node_traffic has returned after committing
Consolidated ==
    pc = "idle" /\ report.op = "consolidate_node_traffic"
                /\ report.kind = "success"

Of(tbl, n) == {r \in tbl : r.node_name = n}

RECURSIVE Total(_, _)
Total(rows, field) ==
    IF rows = {} THEN 0
    ELSE LET r == CHOOSE x \in rows : TRUE
         IN  r[field] + Total(rows \ {r}, field)

\* C3: after a successful run every node that had records has exactly one,
\* dated at the latest of its former dates and holding the sums of the
\* former traffic_in and traffic_out.
C3_Consolidated ==
    Consolidated =>
        \A n \in {r.node_name : r \in start.log} :
            /\ Cardinality(Of(log, n)) = 1
            /\ \A r \in Of(log, n) :
                 /\ \A q \in Of(start.log, n) : q.record_date <= r.record_date
                 /\ \E q \in Of(start.log, n) : q.record_date = r.record_date
                 /\ r.traffic_in = Total(Of(start.log, n), "traffic_in")
                 /\ r.traffic_out = Total(Of(start.log, n), "traffic_out")

\* both nodes had two records before the run
C3_Witness ==
    /\ Consolidated
    /\ \A n \in NodeNames : Cardinality(Of(start.log, n)) = 2
    /\ removed_count = 2

\* what a record says about the traffic of its node
Traffic(tbl) ==
    {[node_name |-> r.node_name, record_date |-> r.record_date,
      traffic_in |-> r.traffic_in, traffic_out |-> r.traffic_out] :
        r \in tbl}

\* consolidate_node_traffic committed right after it had committed before
ConsolidatedTwice ==
    Consolidated /\ prev.ok /\ prev.op = "consolidate_node_traffic"

\* C5: a run that follows a successful run leaves the date, traffic_in and
\* traffic_out of every record as they were and removes no row.
C5_ConsolidateIdempotent ==
    ConsolidatedTwice =>
        /\ Traffic(log) = Traffic(start.log)
        /\ removed_count = 0

\* the second run went over the single records of two nodes, of which the
\* first run had made at least one out of two
C5_Witness ==
    /\ ConsolidatedTwice
    /\ consolidated_count = 2
    /\ \E r \in log : r.traffic_in > MaxTraffic

----------------------------------------------------------------------------
(* Properties of the second sitting: migrate_users *)

\* C11: clean_specific_tokens runs when every fetched row has been
\* reconciled and before the commit, in the same transaction: what is
\* committed with success is the cleaned table, and a failure inside the
\* clean-up leaves the committed table as it was before the run.
C11_HygieneInTransaction ==
    /\ pc = "clean" =>
            /\ Len(rowlog) = Len(users)
            /\ \A i \in 1..Len(rowlog) : rowlog[i].err = ""
            /\ db = start.db
    /\ pc = "commit" => db = start.db /\ ToClean(tx) = {}
    /\ (Migrated /\ report.kind = "success") =>
            /\ ToClean(db) = {}
            /\ db = CleanTokens(preclean, 0).tbl
    /\ (Migrated /\ report.token_error) =>
            /\ report.kind = "error"
            /\ db = start.db
            /\ tx = start.db

\* the clean-up failed after one row had been inserted and one updated
C11_Witness ==
    /\ Migrated /\ report.token_error
    /\ Len(rowlog) = 2
    /\ rowlog[1].path = "insert" /\ rowlog[2].path = "update"
    /\ preclean # start.db

----------------------------------------------------------------------------
(* Properties of the second sitting: consolidate_node_traffic *)

\* consolidate_node_traffic has returned after an error
ConsolidateFailed ==
    pc = "idle" /\ report.op = "consolidate_node_traffic"
                /\ report.kind = "error"

\* C12: consolidate_node_traffic is all-or-nothing.  While it runs the
\* committed records are those it started from; after a failure they still
\* are, for the nodes already consolidated in the pass as well; what a
\* successful run commits has every node consolidated.
C12_ConsolidateAllOrNothing ==
    /\ pc # "idle" => log = start.log
    /\ ConsolidateFailed => log = start.log /\ txlog = start.log
    /\ Consolidated =>
            \A n \in {r.node_name : r \in start.log} :
                Cardinality(Of(log, n)) = 1

\* the pass failed on the second node after it had consolidated the first
\* one and deleted a record of it
C12_Witness ==
    /\ ConsolidateFailed
    /\ consolidated_count = 1 /\ removed_count = 1
    /\ \A n \in NodeNames : Cardinality(Of(start.log, n)) = 2

----------------------------------------------------------------------------
(* Properties of the second sitting: the insert and the update path *)

\* C13: a source row without a target account of its username is inserted
\* as exactly one account with the counters at 0, no token, status 1,
\* created_at and register_time at the source created_at (the evaluation
\* time when the row has no created_at), updated_at at the evaluation time,
\* and the group_id and group_time computed for the row.
C13_InsertPath ==
    InMigration =>
        \A i \in 1..Len(rowlog) :
            LET e == rowlog[i]
                u == e.user.username
                r == Row(tx, u)
                created == IF e.user.created_at = Absent THEN Dt(e.t)
                           ELSE e.user.created_at
            IN  /\ ~HasRow(start.db, u) => e.path = "insert"
                /\ e.path = "insert" =>
                     /\ ~HasRow(start.db, u)
                     /\ Cardinality({q \in tx : q.username = u}) = 1
                     /\ r.tunnel_count = 0 /\ r.bandwidth = 0
                     /\ r.traffic_quota = 0 /\ r.checkin_count = 0
                     /\ r.continuity_checkin = 0
                     /\ r.token = NullTok
                     /\ r.status = 1
                     /\ r.created_at = created /\ r.register_time = created
                     /\ r.updated_at = Dt(e.t)
                     /\ r.group_id = e.group_id
                     /\ r.group_time = e.group_time

\* a row with a created_at and a row without one were inserted, at
\* different times
C13_Witness ==
    /\ InMigration
    /\ Len(rowlog) = 2
    /\ rowlog[1].path = "insert" /\ rowlog[2].path = "insert"
    /\ rowlog[1].user.created_at # Absent /\ rowlog[2].user.created_at = Absent
    /\ rowlog[1].t # rowlog[2].t

----------------------------------------------------------------------------
(* Properties of the second sitting: how a failure ends *)

\* C14 as stated: an operation whose body raised ends in an error that
\* leaves the function (an exception or a failing exit status), not in a
\* normal return.
C14_FailureSurfaced ==
    (pc = "idle" /\ report.kind = "error") =>
        report.cause # "" /\ report.raised

\* C15: on the update path the account gets the group_id computed for the
\* row; its group_time is written only when the computed one is not null,
\* and is otherwise the value stored before the run.
C15_UpdateKeepsExpiry ==
    InMigration =>
        \A i \in 1..Len(rowlog) :
            LET e == rowlog[i]
                u == e.user.username
            IN  e.path = "update" =>
                    /\ HasRow(start.db, u)
                    /\ Row(tx, u).group_id = e.group_id
                    /\ Row(tx, u).group_time =
                         IF e.group_time = None
                         THEN Row(start.db, u).group_time
                         ELSE e.group_time

\* a lapsed, unverified VIP whose account held an expiry was updated
C15_Witness ==
    /\ InMigration
    /\ \E i \in 1..Len(rowlog) :
         LET e == rowlog[i]
         IN  /\ e.path = "update"
             /\ e.user.type = Str("VIP") /\ ~VipActive(e)
             /\ e.user.is_verified = 0
             /\ Row(start.db, e.user.username).group_time = Dt(2)
             /\ Row(tx, e.user.username).group_id = 1
             /\ Row(tx, e.user.username).token = Tok(<<"k", "e", "e", "p">>)

\* the usernames of the fetched source rows
LegacyNames == {users[i].username : i \in 1..Len(users)}

Accounts(tbl, u) == {r \in tbl : r.username = u}

\* C16: reconciliation keeps usernames unique.  After a successful run
\* every source username has exactly one account and no username has two; a
\* run after a successful run takes the update path for every row and
\* inserts nothing; an account whose username is not in the source is left
\* as it was by the loop and is still there after the commit, with only its
\* token open to the clean-up.
C16_UsernameUnique ==
    /\ pc \in {"rows", "clean"} =>
            \A r \in start.db : r.username \notin LegacyNames => r \in tx
    /\ (Migrated /\ report.kind = "success") =>
            /\ \A r \in db : Cardinality(Accounts(db, r.username)) = 1
            /\ \A u \in LegacyNames : Cardinality(Accounts(db, u)) = 1
            /\ \A r \in start.db :
                 r.username \notin LegacyNames =>
                    \E q \in db : q = [r EXCEPT !.token = q.token]
            /\ (prev.ok /\ prev.op = "migrate_users") =>
                    /\ \A i \in 1..Len(rowlog) : rowlog[i].path = "update"
                    /\ Cardinality(db) = Cardinality(start.db)

\* the second run updated the account the first run had inserted, next to
\* two accounts the source does not have
C16_Witness ==
    /\ Migrated /\ report.kind = "success"
    /\ prev.ok /\ prev.op = "migrate_users"
    /\ LegacyNames = {"b"}
    /\ Row(db, "b").tunnel_count = 0
    /\ Cardinality(db) = 3

----------------------------------------------------------------------------
(* Properties of the second sitting: the order of the operations *)

\* update_schema_remove_is_increment is idempotent: after it succeeded the
\* column is gone, and a run after a successful run drops nothing
SchemaIdempotent ==
    (/\ pc = "idle"
     /\ report.op = "update_schema_remove_is_increment"
     /\ report.kind = "success") =>
        /\ ~has_is_increment
        /\ (prev.ok /\ prev.op = "update_schema_remove_is_increment") =>
                report.count = 0

\* C17 as stated: on a table holding a record, consolidate_node_traffic
\* commits the consolidated result when no statement fails for a cause of
\* its own, whether or not update_schema_remove_is_increment ran before;
\* and update_schema_remove_is_increment is idempotent.
C17_OrderIndependent ==
    /\ SchemaIdempotent
    /\ (/\ pc = "idle"
        /\ report.op = "consolidate_node_traffic"
        /\ start.log # {}
        /\ report.cause # "QueryFailure") =>
            /\ report.kind = "success"
            /\ \A n \in {r.node_name : r \in start.log} :
                 Cardinality(Of(log, n)) = 1

====
